---- MODULE Spec2Model ----
(***************************************************************************)
(* Model of the FireSchema TS client runtime:                              *)
(*   - ClientBaseCollectionRef  (collection resolver, schema defaults)     *)
(*   - ClientBaseQueryBuilder   (constraint accumulator and compiler)      *)
(*   - ClientBaseUpdateBuilder  (update accumulator and commit)            *)
(* The firebase/firestore functions are the external store: each call the  *)
(* code makes to one of them is appended to `trace`, and the promise a     *)
(* store call returns stays in `inflight` until the store settles it.      *)
(***************************************************************************)
EXTENDS Integers, Sequences, FiniteSets, TLC

VARIABLES
    resolvers,   \* heap of ClientBaseCollectionRef instances (index = identity)
    objs,        \* heap of payload objects of the running scenario (index = identity)
    sentinels,   \* number of FieldValue objects the store's factories have produced
    builders,    \* heap of query / update builder instances (index = identity)
    containers,  \* heap of accumulator containers: constraint arrays, update maps
    history,     \* per builder instance, the chain calls that produced it (bookkeeping)
    event,       \* the most recent handler call (or settlement): what was called, what it returned
    trace,       \* the store / factory / console calls made by the most recent handler
    inflight     \* promises returned by store calls and not yet settled

vars == <<resolvers, objs, sentinels, builders, containers, history, event, trace, inflight>>

---------------------------------------------------------------------------
(* Bounds                                                                  *)

NumFields == 2      \* how many field names payloads and schemas range over
MaxBuilders == 4    \* builder instances on the heap (two constructed + chained ones)
MaxInflight == 1
MaxPending == 2
MaxResolvers == 3    \* store promises pending at once

---------------------------------------------------------------------------
(* JavaScript values.  Every value is a record [tag, n, vs] so that any two *)
(* values can be compared: n is a number's value, the operand of an        *)
(* increment sentinel or the serial number of a server-timestamp sentinel  *)
(* object; vs holds the elements of an array-union / array-remove sentinel.*)
(* Field names range over ordinary own-property names (none of them is a   *)
(* member of Object.prototype).                                            *)

JsValue(tag, n, vs) == [tag |-> tag, n |-> n, vs |-> vs]
Absent == JsValue("absent", 0, <<>>)          \* the object has no such own key
Undefined == JsValue("undefined", 0, <<>>)
Null == JsValue("null", 0, <<>>)
Lit(n) == JsValue("number", n, <<>>)
ServerTimestampString == JsValue("'serverTimestamp'", 0, <<>>)   \* the directive string

AllFieldNames == <<"name", "createdAt", "count", "tags">>
FieldOrder == SubSeq(AllFieldNames, 1, NumFields)
FieldNames == {FieldOrder[i] : i \in 1..NumFields}
DocIds == {"id1", "id2"}

\* obj[key] as JavaScript reads it: a missing key reads as undefined
Read(obj, key) == IF obj[key] = Absent THEN Undefined ELSE obj[key]
\* { ...obj }: a new object with obj's own keys and values
Spread(obj) == [k \in DOMAIN obj |-> obj[k]]
EmptyObject == [k \in FieldNames |-> Absent]

---------------------------------------------------------------------------
(* Store primitives (firebase/firestore).  Handles are paths.              *)

\* the sentinel factories; `made` counts the server-timestamp objects made so far
serverTimestamp(made) == JsValue("serverTimestamp", made + 1, <<>>)
increment(value) == JsValue("increment", value.n, <<>>)
arrayUnion(values) == JsValue("arrayUnion", 0, values)
arrayRemove(values) == JsValue("arrayRemove", 0, values)
deleteField == JsValue("deleteField", 0, <<>>)

Firestore == <<>>
NoParent == <<>>
collection(parent, collectionId) == Append(parent, collectionId)
doc(ref, id) == Append(ref, id)

NoOptions == [defined |-> FALSE, merge |-> "absent", hasMergeFields |-> FALSE, mergeFields |-> <<>>]
EmptyOptions == [defined |-> TRUE, merge |-> "absent", hasMergeFields |-> FALSE, mergeFields |-> <<>>]

\* one recorded call of a store function on a payload object
StoreCall(fn, ref, data, payload, options) ==
    [fn |-> fn, ref |-> ref, data |-> data, payload |-> payload, options |-> options]
FactoryCall(fn) == StoreCall(fn, <<>>, 0, EmptyObject, NoOptions)
\* the reference constructors: doc(ref, id) and collection(parent, collectionId)
DocCall(ref, id) == [fn |-> "doc", ref |-> ref, id |-> id, result |-> doc(ref, id)]
CollectionCall(parent, collectionId) ==
    [fn |-> "collection", ref |-> parent, id |-> collectionId, result |-> collection(parent, collectionId)]
\* a read or delete of one reference or query
ReadCall(fn, ref) == StoreCall(fn, ref, 0, EmptyObject, NoOptions)

CallsOf(tr, fn) == SelectSeq(tr, LAMBDA c : c.fn = fn)

---------------------------------------------------------------------------
(* Schema registry                                                         *)

\* subCollections?: absent here; the schemas that declare sub-collections are
\* SubSchemas below
NoSubCollections == [defined |-> FALSE, defs |-> <<>>]
NoSchema == [defined |-> FALSE, fields |-> <<>>, subCollections |-> NoSubCollections]
DefaultDirectives == {Undefined, ServerTimestampString, Lit(9)}
Schemas ==
    {NoSchema} \cup
    UNION {{[defined |-> TRUE, fields |-> [f \in S |-> [defaultValue |-> dv[f]]],
              subCollections |-> NoSubCollections] :
              dv \in [S -> DefaultDirectives]} : S \in SUBSET FieldNames}

\* schemas that declare sub-collections: subCollections maps a name to
\* { schema?, collectionClass }.  "undefined" stands for an entry without its
\* collectionClass.
SubCollections(defs) == [defined |-> TRUE, defs |-> defs]
SubCollectionDef(schema, collectionClass) == [schema |-> schema, collectionClass |-> collectionClass]
PlainSchema == [defined |-> TRUE, fields |-> <<>>, subCollections |-> NoSubCollections]
PostsSchema ==
    [defined |-> TRUE, fields |-> <<>>,
     subCollections |-> SubCollections([n \in {"comments"} |-> SubCollectionDef(NoSchema, "CommentsCollection")])]
UsersSchema ==
    [defined |-> TRUE, fields |-> <<>>,
     subCollections |->
        SubCollections([n \in {"posts", "drafts"} |->
                           IF n = "posts" THEN SubCollectionDef(PostsSchema, "PostsCollection")
                           ELSE SubCollectionDef(PlainSchema, "undefined")])]
SubSchemas == {NoSchema, PlainSchema, UsersSchema}
\* names every JavaScript object inherits from Object.prototype
ObjectPrototypeNames == {"toString"}

---------------------------------------------------------------------------
(* ClientBaseCollectionRef                                                 *)

\* a variant that always takes the collection from the store root
NewCollectionRef_rootOnly(firestore, collectionId, schema, parentRef) ==
    [firestore |-> firestore,
     collectionId |-> collectionId,
     schema |-> schema,
     ref |-> collection(firestore, collectionId)]

NewCollectionRef(firestore, collectionId, schema, parentRef) ==
    [firestore |-> firestore,
     collectionId |-> collectionId,
     schema |-> schema,
     ref |-> IF parentRef # NoParent
             THEN collection(parentRef, collectionId)
             ELSE collection(firestore, collectionId)]

\* the store calls of the constructor: one collection(...) call
constructorCalls(firestore, collectionId, parentRef) ==
    <<CollectionCall(IF parentRef # NoParent THEN parentRef ELSE firestore, collectionId)>>

refDoc(this, id) == doc(this.ref, id)

\* the body of the for-in loop of applyDefaults for one schema field;
\* `made` counts the sentinels produced so far
applyDefaultToField_overwrite(fieldDef, dataWithDefaults, fieldName, made) ==
    IF fieldDef.defaultValue = ServerTimestampString
    THEN [obj |-> [dataWithDefaults EXCEPT ![fieldName] = serverTimestamp(made)],
          made |-> made + 1]
    ELSE IF fieldDef.defaultValue # Undefined
    THEN [obj |-> [dataWithDefaults EXCEPT ![fieldName] = fieldDef.defaultValue],
          made |-> made]
    ELSE [obj |-> dataWithDefaults, made |-> made]

applyDefaultToField_noLiteral(fieldDef, dataWithDefaults, fieldName, made) ==
    IF /\ fieldDef.defaultValue = ServerTimestampString
       /\ Read(dataWithDefaults, fieldName) = Undefined
    THEN [obj |-> [dataWithDefaults EXCEPT ![fieldName] = serverTimestamp(made)],
          made |-> made + 1]
    ELSE [obj |-> dataWithDefaults, made |-> made]

\* a variant that takes null for a missing value as well (== null)
applyDefaultToField_nullish(fieldDef, dataWithDefaults, fieldName, made) ==
    IF /\ fieldDef.defaultValue = ServerTimestampString
       /\ Read(dataWithDefaults, fieldName) \in {Undefined, Null}
    THEN [obj |-> [dataWithDefaults EXCEPT ![fieldName] = serverTimestamp(made)],
          made |-> made + 1]
    ELSE IF /\ fieldDef.defaultValue # Undefined
            /\ fieldDef.defaultValue # ServerTimestampString
            /\ Read(dataWithDefaults, fieldName) \in {Undefined, Null}
    THEN [obj |-> [dataWithDefaults EXCEPT ![fieldName] = fieldDef.defaultValue],
          made |-> made]
    ELSE [obj |-> dataWithDefaults, made |-> made]

applyDefaultToField(fieldDef, dataWithDefaults, fieldName, made) ==
    IF /\ fieldDef.defaultValue = ServerTimestampString
       /\ Read(dataWithDefaults, fieldName) = Undefined
    THEN [obj |-> [dataWithDefaults EXCEPT ![fieldName] = serverTimestamp(made)],
          made |-> made + 1]
    ELSE IF /\ fieldDef.defaultValue # Undefined
            /\ fieldDef.defaultValue # ServerTimestampString
            /\ Read(dataWithDefaults, fieldName) = Undefined
    THEN [obj |-> [dataWithDefaults EXCEPT ![fieldName] = fieldDef.defaultValue],
          made |-> made]
    ELSE [obj |-> dataWithDefaults, made |-> made]

RECURSIVE applyDefaultsLoop(_, _, _, _)
applyDefaultsLoop(fields, names, dataWithDefaults, made) ==
    IF names = <<>>
    THEN [obj |-> dataWithDefaults, made |-> made]
    ELSE IF Head(names) \notin DOMAIN fields
    THEN applyDefaultsLoop(fields, Tail(names), dataWithDefaults, made)
    ELSE LET step == applyDefaultToField(fields[Head(names)], dataWithDefaults, Head(names), made)
         IN applyDefaultsLoop(fields, Tail(names), step.obj, step.made)

\* a variant that writes the defaults into the caller's object
applyDefaults_inPlace(this, h, data) ==
    LET out == IF this.schema.defined
               THEN applyDefaultsLoop(this.schema.fields, FieldOrder, h.objs[data], h.sentinels)
               ELSE [obj |-> h.objs[data], made |-> h.sentinels]
    IN [objs |-> [h.objs EXCEPT ![data] = out.obj],
        sentinels |-> out.made,
        ret |-> data,
        calls |-> [i \in 1..(out.made - h.sentinels) |-> FactoryCall("serverTimestamp")]]

\* applyDefaults(data) on the heap h = [objs, sentinels]: the result object is
\* a new heap object; `ret` is its identity
applyDefaults(this, h, data) ==
    LET copy == Spread(h.objs[data])
        out == IF this.schema.defined
               THEN applyDefaultsLoop(this.schema.fields, FieldOrder, copy, h.sentinels)
               ELSE [obj |-> copy, made |-> h.sentinels]
    IN [objs |-> Append(h.objs, out.obj),
        sentinels |-> out.made,
        ret |-> Len(h.objs) + 1,
        calls |-> [i \in 1..(out.made - h.sentinels) |-> FactoryCall("serverTimestamp")]]

\* const isMerge = options && ('merge' in options && options.merge === true || 'mergeFields' in options)
isMerge_flagOnly(options) ==
    options.defined /\ (options.merge # "absent" /\ options.merge = "true")

isMerge_notFalse(options) ==
    options.defined /\ options.merge # "false"

isMerge(options) ==
    /\ options.defined
    /\ \/ (options.merge # "absent" /\ options.merge = "true")
       \/ options.hasMergeFields

\* add(data): the synchronous part, up to the call of addDoc
add(this, h, data) ==
    LET d == applyDefaults(this, h, data)
    IN [objs |-> d.objs,
        sentinels |-> d.sentinels,
        calls |-> d.calls \o <<StoreCall("addDoc", this.ref, d.ret, d.objs[d.ret], NoOptions)>>]

\* a variant that reads the document before deleting it
delete_checkFirst(this, id) ==
    [calls |-> <<DocCall(this.ref, id), ReadCall("getDoc", refDoc(this, id)),
                 ReadCall("deleteDoc", refDoc(this, id))>>]

\* delete(id), up to its await: this.doc(id), then deleteDoc(docRef)
delete(this, id) ==
    [calls |-> <<DocCall(this.ref, id), ReadCall("deleteDoc", refDoc(this, id))>>]

\* get(id), up to its await: this.doc(id), then getDoc(docRef)
get(this, id) ==
    [calls |-> <<DocCall(this.ref, id), ReadCall("getDoc", refDoc(this, id))>>]

\* ref.id: the last segment of a collection path
refId(ref) == ref[Len(ref)]

\* this.schema.subCollections[subCollectionId]: an own entry, else a member
\* of Object.prototype (truthy, without collectionClass), else undefined
Truthy(defs, subCollectionId) ==
    subCollectionId \in DOMAIN defs \/ subCollectionId \in ObjectPrototypeNames
ClassOf(defs, subCollectionId) ==
    IF subCollectionId \in DOMAIN defs THEN defs[subCollectionId].collectionClass ELSE "undefined"

NotFoundError(subCollectionId, this) ==
    <<"Sub-collection '", subCollectionId, "' not found in schema for collection '", refId(this.ref), "'">>
ClassMissingError(subCollectionId, this) ==
    <<"Collection class definition missing for sub-collection '", subCollectionId,
      "' in schema for collection '", refId(this.ref), "'">>

NewCall(class, firestore, collectionId, schema, parentRef) ==
    [fn |-> "new", class |-> class, firestore |-> firestore, collectionId |-> collectionId,
     schema |-> schema, parentRef |-> parentRef]

Thrown(h, message) ==
    [thrown |-> TRUE, message |-> message, calls |-> <<>>, resolvers |-> h, ret |-> 0]
Instantiated(h, class, firestore, collectionId, schema, parentRef, calls) ==
    [thrown |-> FALSE, message |-> <<>>,
     calls |-> calls \o <<NewCall(class, firestore, collectionId, schema, parentRef)>> \o
               constructorCalls(firestore, collectionId, parentRef),
     resolvers |-> Append(h, NewCollectionRef(firestore, collectionId, schema, parentRef)),
     ret |-> Len(h) + 1]

\* a variant that builds the parent document reference before it checks the schema
subCollection_lateCheck(this, h, parentId, subCollectionId, subSchema) ==
    IF \/ ~this.schema.defined
       \/ ~this.schema.subCollections.defined
       \/ ~Truthy(this.schema.subCollections.defs, subCollectionId)
    THEN [Thrown(h, NotFoundError(subCollectionId, this)) EXCEPT !.calls = <<DocCall(this.ref, parentId)>>]
    ELSE IF ClassOf(this.schema.subCollections.defs, subCollectionId) = "undefined"
    THEN [Thrown(h, ClassMissingError(subCollectionId, this)) EXCEPT !.calls = <<DocCall(this.ref, parentId)>>]
    ELSE LET subCollectionDef == this.schema.subCollections.defs[subCollectionId]
             parentDocRef == refDoc(this, parentId)
         IN Instantiated(h, subCollectionDef.collectionClass, this.firestore, subCollectionId,
                         subCollectionDef.schema, parentDocRef, <<DocCall(this.ref, parentId)>>)

\* a variant that prefers the schema the caller passes
subCollection_callerSchema(this, h, parentId, subCollectionId, subSchema) ==
    IF \/ ~this.schema.defined
       \/ ~this.schema.subCollections.defined
       \/ ~Truthy(this.schema.subCollections.defs, subCollectionId)
    THEN Thrown(h, NotFoundError(subCollectionId, this))
    ELSE IF ClassOf(this.schema.subCollections.defs, subCollectionId) = "undefined"
    THEN Thrown(h, ClassMissingError(subCollectionId, this))
    ELSE LET subCollectionDef == this.schema.subCollections.defs[subCollectionId]
             parentDocRef == refDoc(this, parentId)
         IN Instantiated(h, subCollectionDef.collectionClass, this.firestore, subCollectionId,
                         IF subSchema.defined THEN subSchema ELSE subCollectionDef.schema,
                         parentDocRef, <<DocCall(this.ref, parentId)>>)

\* a variant that hands out the instance an earlier call made for the same path
subCollection_cached(this, h, parentId, subCollectionId, subSchema) ==
    IF \/ ~this.schema.defined
       \/ ~this.schema.subCollections.defined
       \/ ~Truthy(this.schema.subCollections.defs, subCollectionId)
    THEN Thrown(h, NotFoundError(subCollectionId, this))
    ELSE IF ClassOf(this.schema.subCollections.defs, subCollectionId) = "undefined"
    THEN Thrown(h, ClassMissingError(subCollectionId, this))
    ELSE LET subCollectionDef == this.schema.subCollections.defs[subCollectionId]
             parentDocRef == refDoc(this, parentId)
             made == {i \in DOMAIN h : h[i].ref = collection(parentDocRef, subCollectionId)}
         IN IF made # {}
            THEN [thrown |-> FALSE, message |-> <<>>, calls |-> <<DocCall(this.ref, parentId)>>,
                  resolvers |-> h, ret |-> CHOOSE i \in made : TRUE]
            ELSE Instantiated(h, subCollectionDef.collectionClass, this.firestore, subCollectionId,
                              subCollectionDef.schema, parentDocRef, <<DocCall(this.ref, parentId)>>)

\* subCollection(parentId, subCollectionId, subSchema); h is the heap of
\* resolver instances, the declared class is a subclass that keeps the base
\* constructor
subCollection(this, h, parentId, subCollectionId, subSchema) ==
    IF \/ ~this.schema.defined
       \/ ~this.schema.subCollections.defined
       \/ ~Truthy(this.schema.subCollections.defs, subCollectionId)
    THEN Thrown(h, NotFoundError(subCollectionId, this))
    ELSE IF ClassOf(this.schema.subCollections.defs, subCollectionId) = "undefined"
    THEN Thrown(h, ClassMissingError(subCollectionId, this))
    ELSE LET subCollectionDef == this.schema.subCollections.defs[subCollectionId]
             parentDocRef == refDoc(this, parentId)
         IN Instantiated(h, subCollectionDef.collectionClass, this.firestore, subCollectionId,
                         subCollectionDef.schema, parentDocRef, <<DocCall(this.ref, parentId)>>)

\* set(id, data, options): the synchronous part, up to the call of setDoc
set(this, h, id, data, options) ==
    LET docRef == refDoc(this, id)
        d == IF ~isMerge(options)
             THEN applyDefaults(this, h, data)
             ELSE [objs |-> h.objs, sentinels |-> h.sentinels, ret |-> data, calls |-> <<>>]
    IN [objs |-> d.objs,
        sentinels |-> d.sentinels,
        calls |-> <<DocCall(this.ref, id)>> \o d.calls \o
                  <<StoreCall("setDoc", docRef, d.ret, d.objs[d.ret],
                              IF options.defined THEN options ELSE EmptyOptions)>>]

---------------------------------------------------------------------------
(* Events and promises                                                     *)

\* a handler call: `data` is the identity of the payload object passed, `arg` its
\* content when the call was made, `ret` the identity of a returned object
CallEvent(op, this, id, data, arg, options, ret, again) ==
    [op |-> op, this |-> this, id |-> id, data |-> data, arg |-> arg, options |-> options,
     ret |-> ret, again |-> again]
NoEvent == CallEvent("new", 0, "", 0, EmptyObject, NoOptions, 0, FALSE)

\* the promise of one store call; `handler` is the async method awaiting or returning it
Promise(handler, fn) == [handler |-> handler, fn |-> fn]

StoreErrors == {"permission-denied", "unavailable"}
\* what the store hands back: snapshots are opaque objects, read through
\* exists(), data() and docs
DocumentSnapshots == {"snapshot:missing", "snapshot:found"}
QuerySnapshots == {"query:empty", "query:a-b"}
ResultUndefined == [kind |-> "undefined"]
ResultNative(name) == [kind |-> "native", name |-> name]
ResultObject(obj) == [kind |-> "object", obj |-> obj]
ResultArray(items) == [kind |-> "array", items |-> items]
snapshotExists(snapshot) == snapshot \in {"snapshot:found", "doc:a", "doc:b"}
snapshotData(snapshot) ==
    CASE snapshot = "snapshot:found" -> ResultObject([title |-> 7])
      [] snapshot = "doc:a" -> ResultObject([title |-> 1])
      [] snapshot = "doc:b" -> ResultObject([title |-> 2])
      [] OTHER -> ResultUndefined
snapshotDocs(snapshot) == IF snapshot = "query:a-b" THEN <<"doc:a", "doc:b">> ELSE <<>>

\* what a store function's promise can settle to
StoreOutcomes(fn) ==
    {[status |-> "rejected", value |-> e] : e \in StoreErrors} \cup
    {[status |-> "fulfilled", value |-> v] :
        v \in CASE fn = "addDoc" -> {"DocumentReference"}
                [] fn = "getDoc" -> DocumentSnapshots
                [] fn = "getDocs" -> QuerySnapshots
                [] OTHER -> {"undefined"}}

\* how the promise of an async method settles, and the store calls the method
\* makes after the store's promise has settled
HandlerResult(status, error, value) ==
    [status |-> status, error |-> error, value |-> value, calls |-> <<>>]

\* `return storePromise`: the method's promise takes the store's outcome
Returned(o) ==
    IF o.status = "rejected"
    THEN HandlerResult("rejected", o.value, ResultUndefined)
    ELSE HandlerResult("fulfilled", "", ResultNative(o.value))

\* a variant that catches the rejection
Awaited_swallow(o, value) ==
    HandlerResult("fulfilled", "", IF o.status = "rejected" THEN ResultUndefined ELSE value)

\* `await storePromise; return value`: a rejection is rethrown by the await
Awaited(o, value) ==
    IF o.status = "rejected"
    THEN HandlerResult("rejected", o.value, ResultUndefined)
    ELSE HandlerResult("fulfilled", "", value)

\* a variant that returns the absence marker for every snapshot
get_then_undefined(o) == Awaited(o, ResultUndefined)

\* ClientBaseCollectionRef.get after its await:
\* snapshot.snapshotExists() ? snapshot.snapshotData() : undefined
get_then(o) == Awaited(o, IF snapshotExists(o.value) THEN snapshotData(o.value) ELSE ResultUndefined)

\* a variant that returns the documents last to first
builderGet_then_reversed(o) ==
    Awaited(o, ResultArray([i \in 1..Len(snapshotDocs(o.value)) |->
                               snapshotData(snapshotDocs(o.value)[Len(snapshotDocs(o.value)) + 1 - i])]))

\* ClientBaseQueryBuilder.get after its await: snapshot.docs.map(doc => doc.snapshotData())
builderGet_then(o) ==
    Awaited(o, ResultArray([i \in 1..Len(snapshotDocs(o.value)) |-> snapshotData(snapshotDocs(o.value)[i])]))

\* the rest of the async method `p.handler` once the store has settled its call
Resume(p, o) ==
    CASE p.handler \in {"add", "getSnapshot"} -> Returned(o)
      [] p.handler \in {"set", "delete", "commit"} -> Awaited(o, ResultUndefined)
      [] p.handler = "get" -> get_then(o)
      [] p.handler = "builder.get" -> builderGet_then(o)

\* The store settles the promise of one pending call and the async method that
\* awaited or returned it runs to its end.  The payload objects of the settled
\* call are garbage from here on.
Settle ==
    \E i \in 1..Len(inflight) : \E o \in StoreOutcomes(inflight[i].fn) :
        LET r == Resume(inflight[i], o)
        IN /\ event' = [op |-> "settle", call |-> inflight[i], status |-> o.status, value |-> o.value,
                        result |-> [status |-> r.status, error |-> r.error, value |-> r.value]]
           /\ inflight' = [j \in 1..(Len(inflight) - 1) |-> IF j < i THEN inflight[j] ELSE inflight[j + 1]]
           /\ trace' = r.calls
           /\ objs' = <<>>
           /\ sentinels' = 0
           /\ UNCHANGED <<resolvers, builders, containers, history>>

---------------------------------------------------------------------------
(* Collection resolver: the caller's inputs and the handlers.  A caller     *)
(* prepares one payload at a time: a handler starts on an empty object     *)
(* heap, and its objects are dropped when its promise settles (Settle) or  *)
(* when the caller lets go of the returned object (Discard).               *)

PayloadValues == {Absent, Undefined, Null, Lit(1)}
Payloads == [FieldNames -> PayloadValues]
OptionsSet ==
    {NoOptions} \cup
    {[defined |-> TRUE, merge |-> m, hasMergeFields |-> mf.has, mergeFields |-> mf.list] :
        m \in {"absent", "false", "true"},
        mf \in {[has |-> FALSE, list |-> <<>>],
                [has |-> TRUE, list |-> <<>>],
                [has |-> TRUE, list |-> <<"name">>]}}

\* a caller builds a payload object and calls add(data)
AddOf(r, data) ==
    LET res == add(resolvers[r], [objs |-> <<data>>, sentinels |-> 0], 1)
    IN /\ objs = <<>>
       /\ Len(inflight) < MaxInflight
       /\ objs' = res.objs
       /\ sentinels' = res.sentinels
       /\ trace' = res.calls
       /\ event' = CallEvent("add", r, "", 1, data, NoOptions, 0, FALSE)
       /\ inflight' = Append(inflight, Promise("add", "addDoc"))
       /\ UNCHANGED <<resolvers, builders, containers, history>>

Add == \E r \in DOMAIN resolvers : \E data \in Payloads : AddOf(r, data)

\* a caller builds a payload object and calls set(id, data, options)
SetOf(r, id, data, options) ==
    LET res == set(resolvers[r], [objs |-> <<data>>, sentinels |-> 0], id, 1, options)
    IN /\ objs = <<>>
       /\ Len(inflight) < MaxInflight
       /\ objs' = res.objs
       /\ sentinels' = res.sentinels
       /\ trace' = res.calls
       /\ event' = CallEvent("set", r, id, 1, data, options, 0, FALSE)
       /\ inflight' = Append(inflight, Promise("set", "setDoc"))
       /\ UNCHANGED <<resolvers, builders, containers, history>>

Set ==
    \E r \in DOMAIN resolvers : \E id \in DocIds : \E data \in Payloads : \E options \in OptionsSet :
        SetOf(r, id, data, options)

\* a subclass calls the protected applyDefaults(data) on a payload object
ApplyDefaults ==
    \E r \in DOMAIN resolvers : \E data \in Payloads :
        LET res == applyDefaults(resolvers[r], [objs |-> <<data>>, sentinels |-> 0], 1)
        IN /\ objs = <<>>
           /\ objs' = res.objs
           /\ sentinels' = res.sentinels
           /\ trace' = res.calls
           /\ event' = CallEvent("applyDefaults", r, "", 1, data, NoOptions, res.ret, FALSE)
           /\ UNCHANGED <<resolvers, builders, containers, history, inflight>>

\* ... and calls applyDefaults again on the object the first call returned
ApplyDefaultsAgain ==
    /\ event.op = "applyDefaults"
    /\ ~event.again
    /\ LET res == applyDefaults(resolvers[event.this], [objs |-> objs, sentinels |-> sentinels], event.ret)
       IN /\ objs' = res.objs
          /\ sentinels' = res.sentinels
          /\ trace' = res.calls
          /\ event' = CallEvent("applyDefaults", event.this, "", event.ret, objs[event.ret], NoOptions, res.ret, TRUE)
    /\ UNCHANGED <<resolvers, builders, containers, history, inflight>>

\* the caller lets go of the objects applyDefaults was called on and returned
Discard ==
    /\ event.op = "applyDefaults"
    /\ objs # <<>>
    /\ objs' = <<>>
    /\ sentinels' = 0
    /\ trace' = <<>>
    /\ event' = NoEvent
    /\ UNCHANGED <<resolvers, builders, containers, history, inflight>>

InitResolver ==
    /\ \E schema \in Schemas :
          resolvers = <<NewCollectionRef(Firestore, "items", schema, NoParent)>>
    /\ objs = <<>>
    /\ sentinels = 0
    /\ builders = <<>>
    /\ containers = <<>>
    /\ history = <<>>
    /\ event = NoEvent
    /\ trace = <<>>
    /\ inflight = <<>>

NextResolver == Add \/ Set \/ ApplyDefaults \/ ApplyDefaultsAgain \/ Discard \/ Settle

SpecResolver == InitResolver /\ [][NextResolver]_vars

---------------------------------------------------------------------------
(* Claims about the collection resolver's write preparation (SpecResolver) *)

IsResolverCall(op) == event.op = op
ThisSchema == resolvers[event.this].schema
\* the caller asks for a merge: merge:true, or a mergeFields list (even an empty one)
RequestsMerge(o) == o.defined /\ (o.merge = "true" \/ o.hasMergeFields)
\* the single write call a handler hands to the store
WriteCall == trace[Len(trace)]
\* the payload reads as undefined at f: the key is missing or explicitly undefined
Omits(obj, f) == obj[f] \in {Absent, Undefined}
\* the schema declares f with a default directive
HasDefault(schema, f) ==
    schema.defined /\ f \in DOMAIN schema.fields /\ schema.fields[f].defaultValue # Undefined
HasTimestampDefault(schema, f) ==
    HasDefault(schema, f) /\ schema.fields[f].defaultValue = ServerTimestampString
IsTimestampSentinel(v) == v.tag = "serverTimestamp"
\* out is arg with, for exactly the omitted fields that have a default, the
\* directive's value: the literal, or a server-timestamp sentinel of its own
IsDefaulted(schema, arg, out) ==
    /\ \A f \in FieldNames :
          IF HasDefault(schema, f) /\ Omits(arg, f)
          THEN IF HasTimestampDefault(schema, f)
               THEN IsTimestampSentinel(out[f])
               ELSE out[f] = schema.fields[f].defaultValue
          ELSE out[f] = arg[f]
    /\ \A f, g \in FieldNames :
          (f # g /\ IsTimestampSentinel(out[f]) /\ IsTimestampSentinel(out[g])) => out[f] # out[g]
TimestampOmitted(schema, arg) == {f \in FieldNames : HasTimestampDefault(schema, f) /\ Omits(arg, f)}

\* C1: a set whose options request a merge (merge:true, or a mergeFields list,
\* empty or not) hands the store the caller's own data, nothing injected, and
\* never invokes the server-timestamp factory.
C1_MergeSetSkipsDefaults ==
    (IsResolverCall("set") /\ RequestsMerge(event.options)) =>
        /\ trace = <<DocCall(resolvers[event.this].ref, event.id), WriteCall>>
        /\ WriteCall.fn = "setDoc"
        /\ WriteCall.payload = event.arg
        /\ CallsOf(trace, "serverTimestamp") = <<>>

C1_Witness ==
    /\ IsResolverCall("set")
    /\ event.options.merge # "true"
    /\ event.options.hasMergeFields
    /\ event.options.mergeFields = <<>>
    /\ \E f \in FieldNames : HasTimestampDefault(ThisSchema, f) /\ Omits(event.arg, f)

\* C2 as stated: whenever the merge option is absent or false, whatever other
\* keys the options carry, the store receives the data with the defaults applied.
C2_Original ==
    (IsResolverCall("set") /\ event.options.merge \in {"absent", "false"}) =>
        /\ WriteCall.fn = "setDoc"
        /\ IsDefaulted(ThisSchema, event.arg, WriteCall.payload)

\* C2 amended: when the merge option is absent or false and the options carry
\* no mergeFields key, the store receives the data with the defaults applied:
\* every schema field with a default that the data omits is in the payload.
C2_FullSetAppliesDefaults ==
    (/\ IsResolverCall("set")
     /\ event.options.merge \in {"absent", "false"}
     /\ ~event.options.hasMergeFields) =>
        /\ WriteCall.fn = "setDoc"
        /\ IsDefaulted(ThisSchema, event.arg, WriteCall.payload)
        /\ \A f \in FieldNames :
              (HasDefault(ThisSchema, f) /\ Omits(event.arg, f)) =>
                  ~Omits(WriteCall.payload, f)

C2_Witness ==
    /\ IsResolverCall("set")
    /\ event.options.defined
    /\ event.options.merge = "false"
    /\ ~event.options.hasMergeFields
    /\ \E f \in FieldNames : HasTimestampDefault(ThisSchema, f) /\ Omits(event.arg, f)
    /\ \E f \in FieldNames : IsTimestampSentinel(WriteCall.payload[f])

\* C3: add and a full-document set keep every field the caller's payload
\* already carries (a value other than undefined) at the caller's value, and
\* when no server-timestamp-default field is omitted the server-timestamp
\* factory is not invoked.
C3_DefaultsNeverOverride ==
    (IsResolverCall("add") \/ (IsResolverCall("set") /\ ~RequestsMerge(event.options))) =>
        /\ WriteCall.fn \in {"addDoc", "setDoc"}
        /\ \A f \in FieldNames : ~Omits(event.arg, f) => WriteCall.payload[f] = event.arg[f]
        /\ (TimestampOmitted(ThisSchema, event.arg) = {}) => CallsOf(trace, "serverTimestamp") = <<>>

C3_Witness ==
    /\ IsResolverCall("add")
    /\ \E f \in FieldNames :
          /\ HasTimestampDefault(ThisSchema, f)
          /\ event.arg[f] = Lit(1)
          /\ WriteCall.payload[f] = Lit(1)
    /\ \E f \in FieldNames : HasDefault(ThisSchema, f) /\ event.arg[f] = Null
    /\ trace = <<WriteCall>>

\* C4: applyDefaults applied to its own output returns an equal object, injects
\* nothing and invokes no sentinel factory.
C4_ApplyDefaultsIdempotent ==
    (IsResolverCall("applyDefaults") /\ event.again) =>
        /\ objs[event.ret] = objs[event.data]
        /\ objs[event.ret] = event.arg
        /\ trace = <<>>

C4_Witness ==
    /\ IsResolverCall("applyDefaults")
    /\ event.again
    /\ \E f \in FieldNames : IsTimestampSentinel(objs[event.ret][f])
    /\ \E f \in FieldNames : objs[event.ret][f] = Lit(9)

\* C5: applyDefaults(data) is data's own fields plus, for exactly the schema
\* fields that have a default directive and that data omits, the literal or one
\* fresh server-timestamp sentinel each; nothing else changes; no schema: data.
C5_ApplyDefaultsReference ==
    (IsResolverCall("applyDefaults") /\ ~event.again) =>
        /\ IsDefaulted(ThisSchema, event.arg, objs[event.ret])
        /\ Len(trace) = Cardinality(TimestampOmitted(ThisSchema, event.arg))
        /\ \A i \in 1..Len(trace) : trace[i].fn = "serverTimestamp"
        /\ ~ThisSchema.defined => objs[event.ret] = event.arg

C5_Witness ==
    /\ IsResolverCall("applyDefaults")
    /\ ~event.again
    /\ \E f, g \in FieldNames :
          /\ HasTimestampDefault(ThisSchema, f) /\ Omits(event.arg, f)
          /\ HasDefault(ThisSchema, g) /\ ~HasTimestampDefault(ThisSchema, g) /\ Omits(event.arg, g)
          /\ objs[event.ret][g] = Lit(9)

---------------------------------------------------------------------------
(* Builders: shared heap.  A builder holds the identity of its accumulator *)
(* container; h = [builders, containers] is the heap a chain method works  *)
(* on, and its result names the instance it returns.                       *)

BuilderHeap == [builders |-> builders, containers |-> containers]
Accumulator(b) ==
    IF b.kind = "query" THEN b.constraintDefinitions ELSE b._updateData

---------------------------------------------------------------------------
(* ClientBaseQueryBuilder                                                  *)

\* constructor(firestore, collectionRef); constraintDefinitions = []
NewQueryBuilder(firestore, collectionRef, array) ==
    [kind |-> "query", firestore |-> firestore, collectionRef |-> collectionRef,
     constraintDefinitions |-> array]

\* a variant that pushes onto the receiver's own array and returns the receiver
addConstraintDefinition_push(this, h, definition) ==
    [builders |-> h.builders,
     containers |-> [h.containers EXCEPT ![h.builders[this].constraintDefinitions] = Append(@, definition)],
     ret |-> this]

\* a variant that lets a definition take the place of an earlier one of its type
addConstraintDefinition_replaceSameType(this, h, definition) ==
    LET old == h.containers[h.builders[this].constraintDefinitions]
        newArray == SelectSeq(old, LAMBDA d : d.type # definition.type) \o <<definition>>
        newBuilder == [h.builders[this] EXCEPT !.constraintDefinitions = Len(h.containers) + 1]
    IN [builders |-> Append(h.builders, newBuilder),
        containers |-> Append(h.containers, newArray),
        ret |-> Len(h.builders) + 1]

\* Object.create + Object.assign(newBuilder, this), then a new array
\* [...this.constraintDefinitions, definition] for the new builder
addConstraintDefinition(this, h, definition) ==
    LET newArray == h.containers[h.builders[this].constraintDefinitions] \o <<definition>>
        newBuilder == [h.builders[this] EXCEPT !.constraintDefinitions = Len(h.containers) + 1]
    IN [builders |-> Append(h.builders, newBuilder),
        containers |-> Append(h.containers, newArray),
        ret |-> Len(h.builders) + 1]

\* the store's constraint factories: opaque native constraints
where(fieldPath, opStr, value) ==
    [native |-> "where", fieldPath |-> fieldPath, opStr |-> opStr, value |-> value]
orderBy(fieldPath, directionStr) ==
    [native |-> "orderBy", fieldPath |-> fieldPath, directionStr |-> directionStr]
limit(limitCount) == [native |-> "limit", limitCount |-> limitCount]
limitToLast(limitCount) == [native |-> "limitToLast", limitCount |-> limitCount]
startAt(snapshotOrFieldValue, fieldValues) ==
    [native |-> "startAt", args |-> <<snapshotOrFieldValue>> \o fieldValues]
startAfter(snapshotOrFieldValue, fieldValues) ==
    [native |-> "startAfter", args |-> <<snapshotOrFieldValue>> \o fieldValues]
endAt(snapshotOrFieldValue, fieldValues) ==
    [native |-> "endAt", args |-> <<snapshotOrFieldValue>> \o fieldValues]
endBefore(snapshotOrFieldValue, fieldValues) ==
    [native |-> "endBefore", args |-> <<snapshotOrFieldValue>> \o fieldValues]

ConstraintTypes ==
    {"where", "orderBy", "limit", "limitToLast", "startAt", "startAfter", "endAt", "endBefore"}

\* the switch of buildQuery for one definition (a supported type)
translate(def) ==
    CASE def.type = "where" -> where(def.fieldPath, def.opStr, def.value)
      [] def.type = "orderBy" -> orderBy(def.fieldPath, def.directionStr)
      [] def.type = "limit" -> limit(def.limitCount)
      [] def.type = "limitToLast" -> limitToLast(def.limitCount)
      [] def.type = "startAt" -> startAt(def.snapshotOrFieldValue, def.fieldValues)
      [] def.type = "startAfter" -> startAfter(def.snapshotOrFieldValue, def.fieldValues)
      [] def.type = "endAt" -> endAt(def.snapshotOrFieldValue, def.fieldValues)
      [] def.type = "endBefore" -> endBefore(def.snapshotOrFieldValue, def.fieldValues)

ConstraintCall(native) == [fn |-> native.native, result |-> native]
QueryCall(ref, constraints) == [fn |-> "query", ref |-> ref, constraints |-> constraints]
Reverse(seq) == [i \in 1..Len(seq) |-> seq[Len(seq) + 1 - i]]

buildQuery_reversed(this, h) ==
    LET defs == h.containers[h.builders[this].constraintDefinitions]
        clientConstraints == Reverse([i \in 1..Len(defs) |-> translate(defs[i])])
    IN [thrown |-> FALSE,
        calls |-> [i \in 1..Len(defs) |-> ConstraintCall(clientConstraints[i])] \o
                  <<QueryCall(h.builders[this].collectionRef, clientConstraints)>>,
        q |-> [ref |-> h.builders[this].collectionRef, constraints |-> clientConstraints]]

\* a variant that leaves out the definitions of no supported type
buildQuery_skipUnknown(this, h) ==
    LET defs == SelectSeq(h.containers[h.builders[this].constraintDefinitions],
                          LAMBDA d : d.type \in ConstraintTypes)
        clientConstraints == [i \in 1..Len(defs) |-> translate(defs[i])]
    IN [thrown |-> FALSE,
        calls |-> [i \in 1..Len(defs) |-> ConstraintCall(clientConstraints[i])] \o
                  <<QueryCall(h.builders[this].collectionRef, clientConstraints)>>,
        q |-> [ref |-> h.builders[this].collectionRef, constraints |-> clientConstraints]]

\* buildQuery(): map the definitions in order, then query(collectionRef, ...clientConstraints);
\* a definition of no supported type throws during the map, after the factory
\* calls for the definitions before it
buildQuery(this, h) ==
    LET defs == h.containers[h.builders[this].constraintDefinitions]
        bad == {i \in 1..Len(defs) : defs[i].type \notin ConstraintTypes}
        firstBad == CHOOSE i \in bad : \A j \in bad : i <= j
        clientConstraints == [i \in 1..Len(defs) |-> translate(defs[i])]
    IN IF bad # {}
       THEN [thrown |-> TRUE,
             calls |-> [i \in 1..(firstBad - 1) |-> ConstraintCall(translate(defs[i]))],
             q |-> [ref |-> <<>>, constraints |-> <<>>]]
       ELSE [thrown |-> FALSE,
             calls |-> [i \in 1..Len(defs) |-> ConstraintCall(clientConstraints[i])] \o
                       <<QueryCall(h.builders[this].collectionRef, clientConstraints)>>,
             q |-> [ref |-> h.builders[this].collectionRef, constraints |-> clientConstraints]]

\* a variant that keeps the query compiled by an earlier call
getSnapshot_noCompile(this, h) ==
    LET b == buildQuery(this, h)
    IN [thrown |-> b.thrown,
        calls |-> IF b.thrown THEN <<>> ELSE <<ReadCall("getDocs", b.q)>>,
        q |-> b.q]

\* getSnapshot(), up to the promise it returns: buildQuery(), then getDocs(q);
\* when buildQuery throws, no read is issued
getSnapshot(this, h) ==
    LET b == buildQuery(this, h)
    IN [thrown |-> b.thrown,
        calls |-> IF b.thrown THEN b.calls ELSE b.calls \o <<ReadCall("getDocs", b.q)>>,
        q |-> b.q]

\* get(), up to its await: this.getSnapshot()
builderGet(this, h) == getSnapshot(this, h)

---------------------------------------------------------------------------
(* ClientBaseUpdateBuilder.  The accumulator _updateData is a JavaScript   *)
(* object: an ordered list of <<key, value>> entries.                      *)

NewUpdateBuilder(docRef, map) ==
    [kind |-> "update", _docRef |-> docRef, _updateData |-> map]

HasKey(entries, key) == \E i \in 1..Len(entries) : entries[i][1] = key
Lookup(entries, key) ==
    IF HasKey(entries, key)
    THEN entries[CHOOSE i \in 1..Len(entries) :
                    entries[i][1] = key /\ \A j \in (i + 1)..Len(entries) : entries[j][1] # key][2]
    ELSE Absent

\* a variant that keeps the value a key already has
SpreadWith_keepFirst(entries, key, value) ==
    IF HasKey(entries, key) THEN entries ELSE Append(entries, <<key, value>>)

\* { ...entries, [key]: value }: an existing key keeps its place and takes the
\* new value, a new key goes last
SpreadWith(entries, key, value) ==
    IF HasKey(entries, key)
    THEN [i \in 1..Len(entries) |-> IF entries[i][1] = key THEN <<key, value>> ELSE entries[i]]
    ELSE Append(entries, <<key, value>>)

\* a variant that assigns into the receiver's own object and returns the receiver
_set_inPlace(this, h, fieldPath, value) ==
    [builders |-> h.builders,
     containers |-> [h.containers EXCEPT ![h.builders[this]._updateData] = SpreadWith(@, fieldPath, value)],
     ret |-> this]

\* a variant whose new builder keeps the receiver's object and writes into it
_set_shared(this, h, fieldPath, value) ==
    [builders |-> Append(h.builders, h.builders[this]),
     containers |-> [h.containers EXCEPT ![h.builders[this]._updateData] = SpreadWith(@, fieldPath, value)],
     ret |-> Len(h.builders) + 1]

\* _set(fieldPath, value): Object.create + Object.assign(newBuilder, this), then
\* a new object { ...this._updateData, [fieldPath]: value } for the new builder
_set(this, h, fieldPath, value) ==
    LET newData == SpreadWith(h.containers[h.builders[this]._updateData], fieldPath, value)
        newBuilder == [h.builders[this] EXCEPT !._updateData = Len(h.containers) + 1]
    IN [builders |-> Append(h.builders, newBuilder),
        containers |-> Append(h.containers, newData),
        ret |-> Len(h.builders) + 1]

_getIncrementFieldValue(value) == increment(value)
_getArrayUnionFieldValue(values) == arrayUnion(values)
_getArrayRemoveFieldValue(values) == arrayRemove(values)
_getServerTimestampFieldValue == serverTimestamp(0)
_getDeleteFieldValue == deleteField

\* a call of an SDK sentinel factory: its arguments and the value it returned
FactoryResult(fn, args, fv) == [fn |-> fn, args |-> args, result |-> fv]

\* the chain methods: each calls its helper, hence the SDK factory, while the
\* chain is being built, then _set with the FieldValue the factory returned.
\* `calls` lists the SDK functions the method called.
Sugar(res, calls) ==
    [builders |-> res.builders, containers |-> res.containers, ret |-> res.ret, calls |-> calls]

\* a variant that stores a description of the operation and calls no factory
_increment_deferred(this, h, fieldPath, value) ==
    Sugar(_set(this, h, fieldPath, JsValue("pending-increment", 0, <<value.n>>)), <<>>)

_increment(this, h, fieldPath, value) ==
    LET fv == _getIncrementFieldValue(value)
    IN Sugar(_set(this, h, fieldPath, fv), <<FactoryResult("increment", <<value.n>>, fv)>>)

\* a variant that hands the factory the values last to first
_arrayUnion_reversed(this, h, fieldPath, values) ==
    LET fv == _getArrayUnionFieldValue(Reverse(values))
    IN Sugar(_set(this, h, fieldPath, fv), <<FactoryResult("arrayUnion", Reverse(values), fv)>>)

\* arrayUnion(...values): the values are spread into individual arguments
_arrayUnion(this, h, fieldPath, values) ==
    LET fv == _getArrayUnionFieldValue(values)
    IN Sugar(_set(this, h, fieldPath, fv), <<FactoryResult("arrayUnion", values, fv)>>)

_arrayRemove(this, h, fieldPath, values) ==
    LET fv == _getArrayRemoveFieldValue(values)
    IN Sugar(_set(this, h, fieldPath, fv), <<FactoryResult("arrayRemove", values, fv)>>)

_serverTimestamp(this, h, fieldPath) ==
    LET fv == _getServerTimestampFieldValue
    IN Sugar(_set(this, h, fieldPath, fv), <<FactoryResult("serverTimestamp", <<>>, fv)>>)

_deleteField(this, h, fieldPath) ==
    LET fv == _getDeleteFieldValue
    IN Sugar(_set(this, h, fieldPath, fv), <<FactoryResult("deleteField", <<>>, fv)>>)

UpdateCall(ref, data, payload) == [fn |-> "updateDoc", ref |-> ref, data |-> data, payload |-> payload]
WarnCall == [fn |-> "console.warn"]

\* what commit() has done when it returns its promise: the calls it made, the
\* state of the promise, and the builders and containers as it leaves them
Committed(h, calls, result) ==
    [calls |-> calls, result |-> result, builders |-> h.builders, containers |-> h.containers]

commit_noGuard(this, h) ==
    Committed(h, <<UpdateCall(h.builders[this]._docRef, h.builders[this]._updateData,
                              h.containers[h.builders[this]._updateData])>>,
              "pending")

commit_lastOnly(this, h) ==
    LET data == h.containers[h.builders[this]._updateData]
    IN IF Len(data) = 0
       THEN Committed(h, <<WarnCall>>, "fulfilled")
       ELSE Committed(h, <<UpdateCall(h.builders[this]._docRef, 0, <<data[Len(data)]>>)>>, "pending")

\* a variant that gives the builder a new empty object once the update is sent
commit_clears(this, h) ==
    IF Len(h.containers[h.builders[this]._updateData]) = 0
    THEN Committed(h, <<WarnCall>>, "fulfilled")
    ELSE [calls |-> <<UpdateCall(h.builders[this]._docRef, h.builders[this]._updateData,
                                 h.containers[h.builders[this]._updateData])>>,
          result |-> "pending",
          builders |-> [h.builders EXCEPT ![this]._updateData = Len(h.containers) + 1],
          containers |-> Append(h.containers, <<>>)]

\* commit(): the synchronous part, up to the return or the call of updateDoc;
\* `result` is the state of the promise commit() returned.  The builder keeps
\* its object: the code assigns nothing to this._updateData.
commit(this, h) ==
    IF Len(h.containers[h.builders[this]._updateData]) = 0
    THEN Committed(h, <<WarnCall>>, "fulfilled")
    ELSE Committed(h, <<UpdateCall(h.builders[this]._docRef, h.builders[this]._updateData,
                                   h.containers[h.builders[this]._updateData])>>,
                   "pending")

---------------------------------------------------------------------------
(* Builders: the callers' inputs and the handlers                          *)

QueryBuilders == {b \in DOMAIN builders : builders[b].kind = "query"}
UpdateBuilders == {b \in DOMAIN builders : builders[b].kind = "update"}

QueryFieldPaths == {"age"}
WhereOps == {"=="}
WhereValues == {18}
Directions == {"undefined", "desc"}      \* "undefined": the parameter is left out
LimitCounts == {10}
CursorAnchors == {1}
CursorFieldValues == {<<2, 3>>}
FieldPaths == {"x", "y.z"}
SetValues == {Lit(1), Lit(2)}
IncrementValues == {Lit(1)}
ArrayValues == {<<1, 2>>}

\* A chain call on builder `this` returned instance res.ret; `call` is the call
\* as the caller made it, `calls` the store functions the method invoked.
ChainOf(this, res, call, calls, ev) ==
    /\ Len(builders) < MaxBuilders
    /\ builders' = res.builders
    /\ containers' = res.containers
    /\ history' = IF res.ret > Len(history)
                  THEN Append(history, Append(history[this], call))
                  ELSE [history EXCEPT ![res.ret] = Append(@, call)]
    /\ event' = ev
    /\ trace' = calls
    /\ UNCHANGED <<resolvers, objs, sentinels, inflight>>

Chain(this, res, call, calls) ==
    ChainOf(this, res, call, calls, [op |-> call.op, this |-> this, ret |-> res.ret, call |-> call])

Where ==
    \E b \in QueryBuilders : \E fieldPath \in QueryFieldPaths : \E opStr \in WhereOps : \E value \in WhereValues :
        Chain(b,
              addConstraintDefinition(b, BuilderHeap,
                  [type |-> "where", fieldPath |-> fieldPath, opStr |-> opStr, value |-> value]),
              [op |-> "_where", fieldPath |-> fieldPath, opStr |-> opStr, value |-> value], <<>>)

OrderBy ==
    \E b \in QueryBuilders : \E fieldPath \in QueryFieldPaths : \E directionStr \in Directions :
        Chain(b,
              addConstraintDefinition(b, BuilderHeap,
                  [type |-> "orderBy", fieldPath |-> fieldPath,
                   directionStr |-> IF directionStr = "undefined" THEN "asc" ELSE directionStr]),
              [op |-> "orderBy", fieldPath |-> fieldPath, directionStr |-> directionStr], <<>>)

Limit ==
    \E b \in QueryBuilders : \E limitCount \in LimitCounts :
        Chain(b,
              addConstraintDefinition(b, BuilderHeap, [type |-> "limit", limitCount |-> limitCount]),
              [op |-> "limit", limitCount |-> limitCount], <<>>)

LimitToLast ==
    \E b \in QueryBuilders : \E limitCount \in LimitCounts :
        Chain(b,
              addConstraintDefinition(b, BuilderHeap, [type |-> "limitToLast", limitCount |-> limitCount]),
              [op |-> "limitToLast", limitCount |-> limitCount], <<>>)

\* startAt / startAfter / endBefore / endAt (snapshotOrFieldValue, ...fieldValues)
Cursor(type) ==
    \E b \in QueryBuilders : \E snapshotOrFieldValue \in CursorAnchors : \E fieldValues \in CursorFieldValues :
        Chain(b,
              addConstraintDefinition(b, BuilderHeap,
                  [type |-> type, snapshotOrFieldValue |-> snapshotOrFieldValue,
                   fieldValues |-> fieldValues]),
              [op |-> type, snapshotOrFieldValue |-> snapshotOrFieldValue,
               fieldValues |-> fieldValues], <<>>)

StartAt == Cursor("startAt")
StartAfter == Cursor("startAfter")
EndBefore == Cursor("endBefore")
EndAt == Cursor("endAt")

BuildQuery ==
    \E b \in QueryBuilders :
        LET res == buildQuery(b, BuilderHeap)
        IN /\ event' = [op |-> "buildQuery", this |-> b, thrown |-> res.thrown, q |-> res.q]
           /\ trace' = res.calls
           /\ UNCHANGED <<resolvers, objs, sentinels, builders, containers, history, inflight>>

SetField ==
    \E b \in UpdateBuilders : \E fieldPath \in FieldPaths : \E value \in SetValues :
        Chain(b, _set(b, BuilderHeap, fieldPath, value),
              [op |-> "_set", fieldPath |-> fieldPath, value |-> value], <<>>)

Increment ==
    \E b \in UpdateBuilders : \E fieldPath \in FieldPaths : \E value \in IncrementValues :
        LET res == _increment(b, BuilderHeap, fieldPath, value)
        IN Chain(b, res, [op |-> "_increment", fieldPath |-> fieldPath, value |-> value], res.calls)

ArrayUnion ==
    \E b \in UpdateBuilders : \E fieldPath \in FieldPaths : \E values \in ArrayValues :
        LET res == _arrayUnion(b, BuilderHeap, fieldPath, values)
        IN Chain(b, res, [op |-> "_arrayUnion", fieldPath |-> fieldPath, values |-> values], res.calls)

ArrayRemove ==
    \E b \in UpdateBuilders : \E fieldPath \in FieldPaths : \E values \in ArrayValues :
        LET res == _arrayRemove(b, BuilderHeap, fieldPath, values)
        IN Chain(b, res, [op |-> "_arrayRemove", fieldPath |-> fieldPath, values |-> values], res.calls)

ServerTimestamp ==
    \E b \in UpdateBuilders : \E fieldPath \in FieldPaths :
        LET res == _serverTimestamp(b, BuilderHeap, fieldPath)
        IN Chain(b, res, [op |-> "_serverTimestamp", fieldPath |-> fieldPath], res.calls)

DeleteField ==
    \E b \in UpdateBuilders : \E fieldPath \in FieldPaths :
        LET res == _deleteField(b, BuilderHeap, fieldPath)
        IN Chain(b, res, [op |-> "_deleteField", fieldPath |-> fieldPath], res.calls)

\* a call of commit() on builder b; `promise` is the record kept for the
\* pending updateDoc
CommitOf(b, promise) ==
    LET res == commit(b, BuilderHeap)
    IN /\ res.result = "pending" => Len(inflight) < MaxInflight
       /\ event' = [op |-> "commit", this |-> b, result |-> res.result]
       /\ trace' = res.calls
       /\ inflight' = IF res.result = "pending" THEN Append(inflight, promise) ELSE inflight
       /\ builders' = res.builders
       /\ containers' = res.containers
       /\ UNCHANGED <<resolvers, objs, sentinels, history>>

Commit == \E b \in UpdateBuilders : CommitOf(b, Promise("commit", "updateDoc"))

\* one query builder on a collection and one update builder on a document
InitBuilders ==
    /\ resolvers = <<>>
    /\ objs = <<>>
    /\ sentinels = 0
    /\ builders = <<NewQueryBuilder(Firestore, collection(Firestore, "items"), 1),
                    NewUpdateBuilder(doc(collection(Firestore, "items"), "id1"), 2)>>
    /\ containers = << <<>>, <<>> >>
    /\ history = << <<>>, <<>> >>
    /\ event = NoEvent
    /\ trace = <<>>
    /\ inflight = <<>>

NextBuilders ==
    \/ Where \/ OrderBy \/ Limit \/ LimitToLast
    \/ StartAt \/ StartAfter \/ EndBefore \/ EndAt
    \/ BuildQuery
    \/ SetField \/ Increment \/ ArrayUnion \/ ArrayRemove \/ ServerTimestamp \/ DeleteField
    \/ Commit
    \/ Settle

SpecBuilders == InitBuilders /\ [][NextBuilders]_vars

---------------------------------------------------------------------------
(* Claims about the builders (SpecBuilders)                                *)

QueryChainOps ==
    {"_where", "orderBy", "limit", "limitToLast", "startAt", "startAfter", "endBefore", "endAt"}
UpdateChainOps ==
    {"_set", "_increment", "_arrayUnion", "_arrayRemove", "_serverTimestamp", "_deleteField"}
ChainOps == QueryChainOps \cup UpdateChainOps

\* a builder's fields and the content of its accumulator
BuilderState(b) == <<builders[b], containers[Accumulator(builders[b])]>>

\* the native constraint a chain call stands for
NativeOfCall(call) ==
    CASE call.op = "_where" ->
            [native |-> "where", fieldPath |-> call.fieldPath, opStr |-> call.opStr, value |-> call.value]
      [] call.op = "orderBy" ->
            [native |-> "orderBy", fieldPath |-> call.fieldPath,
             directionStr |-> IF call.directionStr = "desc" THEN "desc" ELSE "asc"]
      [] call.op \in {"limit", "limitToLast"} ->
            [native |-> call.op, limitCount |-> call.limitCount]
      [] OTHER ->
            [native |-> call.op, args |-> <<call.snapshotOrFieldValue>> \o call.fieldValues]

\* the value a chain call of the update builder installs at its path
InstalledBy(call) ==
    CASE call.op = "_set" -> call.value
      [] call.op = "_increment" -> JsValue("increment", call.value.n, <<>>)
      [] call.op = "_arrayUnion" -> JsValue("arrayUnion", 0, call.values)
      [] call.op = "_arrayRemove" -> JsValue("arrayRemove", 0, call.values)
      [] call.op = "_serverTimestamp" -> JsValue("serverTimestamp", 1, <<>>)
      [] call.op = "_deleteField" -> JsValue("deleteField", 0, <<>>)

\* what the most recent call for `path` among `calls` installed (Absent: none)
LastInstalled(calls, path) ==
    LET at == {i \in 1..Len(calls) : calls[i].fieldPath = path}
    IN IF at = {} THEN Absent
       ELSE InstalledBy(calls[CHOOSE i \in at : \A j \in at : j <= i])

UniqueKeys(entries) ==
    \A i, j \in 1..Len(entries) : i # j => entries[i][1] # entries[j][1]
\* the entries are exactly the mapping the chain calls leave: one entry per
\* path that was written, holding what the last call for it installed
IsMappingOf(entries, calls) ==
    /\ UniqueKeys(entries)
    /\ \A i \in 1..Len(entries) : entries[i][1] \in FieldPaths
    /\ \A path \in FieldPaths : Lookup(entries, path) = LastInstalled(calls, path)

\* C6: a chain call on any builder returns an instance distinct from the
\* receiver (a new one), and every existing builder keeps its fields and its
\* accumulated constraints / operations across the call.
C6_ChainingIsImmutable ==
    [][(event'.op \in ChainOps /\ <<builders, containers, event>>' # <<builders, containers, event>>) =>
          /\ event'.ret # event'.this
          /\ event'.ret \notin DOMAIN builders
          /\ \A b \in DOMAIN builders :
                /\ b \in DOMAIN builders'
                /\ BuilderState(b)' = BuilderState(b)]_vars

C6_Witness ==
    /\ event.op \in UpdateChainOps
    /\ event.ret = 4
    /\ containers[builders[event.this]._updateData] = <<>>
    /\ Len(containers[builders[event.ret]._updateData]) = 1
    /\ builders[3].kind = "query"
    /\ Len(containers[builders[3].constraintDefinitions]) = 1
    /\ containers[builders[1].constraintDefinitions] = <<>>

\* C7: buildQuery calls the store's query combinator exactly once, with the
\* builder's collection handle followed by the native translations of the
\* constraints in the order they were appended, one per constraint.
C7_CompilePreservesOrder ==
    event.op = "buildQuery" =>
        LET calls == history[event.this]
            natives == [i \in 1..Len(calls) |-> NativeOfCall(calls[i])]
        IN /\ Len(CallsOf(trace, "query")) = 1
           /\ trace[Len(trace)] = [fn |-> "query", ref |-> builders[event.this].collectionRef,
                                   constraints |-> natives]
           /\ Len(trace) = Len(calls) + 1
           /\ \A i \in 1..Len(calls) : trace[i].result = natives[i]

C7_Witness ==
    /\ event.op = "buildQuery"
    /\ Len(history[event.this]) = 2
    /\ history[event.this][1].op = "limitToLast"
    /\ history[event.this][2].op = "startAt"
    /\ history[event.this][2].fieldValues = <<2, 3>>
    /\ Len(trace) = 3

\* C8: in every update builder, each field path has at most one entry, and it
\* holds what the most recent chain call for that path installed, whatever
\* kind of operation an earlier call installed; other paths keep their entries.
C8_LastWriteWins ==
    \A b \in UpdateBuilders :
        IsMappingOf(containers[builders[b]._updateData], history[b])

C8_Witness ==
    \E b \in UpdateBuilders :
        /\ Len(history[b]) = 2
        /\ history[b][1].op = "_set"
        /\ history[b][2].op = "_increment"
        /\ history[b][1].fieldPath = history[b][2].fieldPath
        /\ Len(containers[builders[b]._updateData]) = 1

\* C9: commit on a builder with no accumulated operation calls no store write,
\* resolves successfully, and warns.
C9_EmptyCommitIsNoOp ==
    (event.op = "commit" /\ containers[builders[event.this]._updateData] = <<>>) =>
        /\ CallsOf(trace, "updateDoc") = <<>>
        /\ event.result = "fulfilled"
        /\ trace = <<[fn |-> "console.warn"]>>

C9_Witness ==
    /\ event.op = "commit"
    /\ history[event.this] = <<>>
    /\ containers[builders[event.this]._updateData] = <<>>
    /\ event.result = "fulfilled"
    /\ \E b \in UpdateBuilders : history[b] # <<>>

\* C10: commit on a builder with accumulated operations issues exactly one
\* updateDoc call, on the document handle the builder was constructed with,
\* carrying every accumulated path with its last-installed value and nothing else.
C10_CommitSendsFullMapping ==
    (event.op = "commit" /\ containers[builders[event.this]._updateData] # <<>>) =>
        /\ Len(trace) = 1
        /\ trace[1].fn = "updateDoc"
        /\ trace[1].ref = builders[2]._docRef
        /\ IsMappingOf(trace[1].payload, history[event.this])
        /\ event.result = "pending"

C10_Witness ==
    /\ event.op = "commit"
    /\ Len(history[event.this]) = 2
    /\ Len(trace[1].payload) = 2
    /\ trace[1].fn = "updateDoc"

---------------------------------------------------------------------------
(* C11: when the sentinel factories run                                    *)

SentinelOps == {"_increment", "_arrayUnion", "_arrayRemove", "_serverTimestamp", "_deleteField"}
SentinelFactories == {"increment", "arrayUnion", "arrayRemove", "serverTimestamp", "deleteField"}
FactoryOf(op) ==
    CASE op = "_increment" -> "increment"
      [] op = "_arrayUnion" -> "arrayUnion"
      [] op = "_arrayRemove" -> "arrayRemove"
      [] op = "_serverTimestamp" -> "serverTimestamp"
      [] op = "_deleteField" -> "deleteField"
\* the arguments a sugar call hands to its factory
ArgsOfCall(call) ==
    CASE call.op = "_increment" -> <<call.value.n>>
      [] call.op \in {"_arrayUnion", "_arrayRemove"} -> call.values
      [] OTHER -> <<>>
FactoryCallsIn(tr) == {i \in 1..Len(tr) : tr[i].fn \in SentinelFactories}
SentinelEntries(entries) ==
    {i \in 1..Len(entries) : entries[i][2].tag \in SentinelFactories}

\* C11 as stated: a chain method that names a sentinel operation calls no
\* sentinel factory, and commit() calls one factory for every sentinel
\* operation of the mapping it sends.
C11_Original ==
    /\ event.op \in SentinelOps => FactoryCallsIn(trace) = {}
    /\ (event.op = "commit" /\ event.result = "pending") =>
          Cardinality(FactoryCallsIn(trace)) =
              Cardinality(SentinelEntries(containers[builders[event.this]._updateData]))

\* C11, amended: the chain method that names a sentinel operation calls that
\* operation's factory exactly once, with the caller's arguments, and the new
\* builder stores the value the factory returned; commit() calls no sentinel
\* factory and sends the stored values as they are.
C11_FactoriesRunAtChainTime ==
    /\ event.op \in SentinelOps =>
          /\ trace = <<FactoryResult(FactoryOf(event.op), ArgsOfCall(event.call), InstalledBy(event.call))>>
          /\ Lookup(containers[builders[event.ret]._updateData], event.call.fieldPath) = trace[1].result
    /\ event.op = "commit" =>
          /\ FactoryCallsIn(trace) = {}
          /\ event.result = "pending" =>
                trace[1].payload = containers[builders[event.this]._updateData]

\* a commit that sends a mapping holding an increment sentinel
C11_Witness ==
    /\ event.op = "commit"
    /\ event.result = "pending"
    /\ \E i \in SentinelEntries(containers[builders[event.this]._updateData]) :
          containers[builders[event.this]._updateData][i][2].tag = "increment"

---------------------------------------------------------------------------
(* Terminal calls (SpecTerminal): one resolver, one query builder and one   *)
(* update builder, the calls that reach the store, and the store's answers. *)
(* The promise of a delete carries the receiver and the document id of its *)
(* call.  The caller of delete and of the resolver's get waits for the     *)
(* pending calls first; up to MaxPending reads of query builders are       *)
(* pending at once.                                                        *)

\* `again`: the call repeats, for the same id, the call that has just succeeded
PromiseOf(handler, fn, this, id, again) ==
    [handler |-> handler, fn |-> fn, this |-> this, id |-> id, again |-> again]

TerminalPayloads == {EmptyObject}
TerminalOptions == {NoOptions}
TerminalDocIds == {"id1"}

TerminalAdd == \E r \in DOMAIN resolvers : \E data \in TerminalPayloads : AddOf(r, data)

TerminalSet ==
    \E r \in DOMAIN resolvers : \E id \in TerminalDocIds : \E data \in TerminalPayloads :
        \E options \in TerminalOptions : SetOf(r, id, data, options)

\* the event before this call is the successful end of the same call for the same id
Repeats(handler, r, id) ==
    /\ event.op = "settle"
    /\ event.call.handler = handler
    /\ event.status = "fulfilled"
    /\ event.call.this = r
    /\ event.call.id = id

Delete ==
    \E r \in DOMAIN resolvers : \E id \in DocIds :
        /\ inflight = <<>>
        /\ trace' = delete(resolvers[r], id).calls
        /\ event' = CallEvent("delete", r, id, 0, EmptyObject, NoOptions, 0, Repeats("delete", r, id))
        /\ inflight' = Append(inflight, PromiseOf("delete", "deleteDoc", r, id, Repeats("delete", r, id)))
        /\ UNCHANGED <<resolvers, objs, sentinels, builders, containers, history>>

Get ==
    \E r \in DOMAIN resolvers : \E id \in DocIds :
        /\ inflight = <<>>
        /\ trace' = get(resolvers[r], id).calls
        /\ event' = CallEvent("get", r, id, 0, EmptyObject, NoOptions, 0, FALSE)
        /\ inflight' = Append(inflight, Promise("get", "getDoc"))
        /\ UNCHANGED <<resolvers, objs, sentinels, builders, containers, history>>

\* a terminal read of a query builder; a throw of buildQuery rejects the
\* returned promise at once and leaves nothing pending.  `again`: the call
\* before this one was a read of the same builder, which is still pending
Fetch(b, handler, res) ==
    /\ Len(inflight) < MaxPending
    /\ trace' = res.calls
    /\ event' = [op |-> handler, this |-> b, thrown |-> res.thrown, q |-> res.q,
                 again |-> (event.op \in {"getSnapshot", "builder.get"} /\ event.this = b)]
    /\ inflight' = IF res.thrown THEN inflight ELSE Append(inflight, Promise(handler, "getDocs"))
    /\ UNCHANGED <<resolvers, objs, sentinels, builders, containers, history>>

GetSnapshot == \E b \in QueryBuilders : Fetch(b, "getSnapshot", getSnapshot(b, BuilderHeap))

BuilderGet == \E b \in QueryBuilders : Fetch(b, "builder.get", builderGet(b, BuilderHeap))

InitTerminal ==
    /\ resolvers = <<NewCollectionRef(Firestore, "items", NoSchema, NoParent)>>
    /\ objs = <<>>
    /\ sentinels = 0
    /\ builders = <<NewQueryBuilder(Firestore, collection(Firestore, "items"), 1),
                    NewUpdateBuilder(doc(collection(Firestore, "items"), "id1"), 2)>>
    /\ containers = << <<>>, <<>> >>
    /\ history = << <<>>, <<>> >>
    /\ event = NoEvent
    /\ trace = <<>>
    /\ inflight = <<>>

NextTerminal ==
    \/ TerminalAdd \/ TerminalSet \/ Delete \/ Get
    \/ Limit \/ GetSnapshot \/ BuilderGet
    \/ Increment \/ Commit
    \/ Settle

SpecTerminal == InitTerminal /\ [][NextTerminal]_vars

---------------------------------------------------------------------------
(* Claims about the terminal calls (SpecTerminal)                          *)

Settled(handler) == event.op = "settle" /\ event.call.handler = handler
ThisRef == resolvers[event.this].ref

\* C12: get(id) issues one store read, getDoc on doc(ref, id), and nothing
\* else; when the store answers with a snapshot of a document that does not
\* exist the call resolves with undefined and does not fail, and when the
\* document exists it resolves with the snapshot's data.
C12_GetReadsOnce ==
    /\ IsResolverCall("get") =>
          /\ trace = <<DocCall(ThisRef, event.id), ReadCall("getDoc", doc(ThisRef, event.id))>>
          /\ Len(CallsOf(trace, "getDoc")) = 1
    /\ (Settled("get") /\ event.status = "fulfilled") =>
          /\ event.result.status = "fulfilled"
          /\ trace = <<>>
          /\ event.value = "snapshot:missing" => event.result.value = ResultUndefined
          /\ event.value = "snapshot:found" => event.result.value = ResultObject([title |-> 7])

\* a get whose document does not exist has resolved with undefined
C12_Witness ==
    /\ Settled("get")
    /\ event.value = "snapshot:missing"
    /\ event.result.status = "fulfilled"
    /\ event.result.value = ResultUndefined

AsyncStoreFns == {"addDoc", "setDoc", "deleteDoc", "getDoc", "getDocs", "updateDoc"}
AsyncCallsIn(tr) == {i \in 1..Len(tr) : tr[i].fn \in AsyncStoreFns}
TerminalOps == {"add", "set", "delete", "get", "getSnapshot", "builder.get"}

\* C16: each of add, set, delete, get, getSnapshot, the builder's get and a
\* commit of a non-empty mapping issues one store call that returns a
\* promise; when the store rejects it with e the method's promise is rejected
\* with the same e, and the method makes no further call.
C16_StoreErrorsPropagate ==
    /\ event.op \in TerminalOps => Cardinality(AsyncCallsIn(trace)) = 1
    /\ (event.op = "commit" /\ event.result = "pending") => Cardinality(AsyncCallsIn(trace)) = 1
    /\ (event.op = "settle" /\ event.status = "rejected") =>
          /\ event.result.status = "rejected"
          /\ event.result.error = event.value
          /\ event.value \in StoreErrors
          /\ trace = <<>>

\* the store has rejected the updateDoc of a commit
C16_Witness ==
    /\ Settled("commit")
    /\ event.status = "rejected"
    /\ event.result = [status |-> "rejected", error |-> "unavailable", value |-> ResultUndefined]

\* C17: the builder's get() resolves with the data of the documents of the
\* snapshot getDocs resolved with, one per document and in the snapshot's
\* order; an empty snapshot gives an empty array and no failure.
C17_GetMapsDocsInOrder ==
    /\ (event.op = "builder.get" /\ ~event.thrown) =>
          trace[Len(trace)] = ReadCall("getDocs", event.q)
    /\ (Settled("builder.get") /\ event.status = "fulfilled") =>
          /\ event.result.status = "fulfilled"
          /\ event.value = "query:empty" => event.result.value = ResultArray(<<>>)
          /\ event.value = "query:a-b" =>
                event.result.value = ResultArray(<<ResultObject([title |-> 1]), ResultObject([title |-> 2])>>)

\* two documents matched
C17_Witness ==
    /\ Settled("builder.get")
    /\ event.value = "query:a-b"
    /\ event.result.status = "fulfilled"
    /\ Len(event.result.value.items) = 2

\* C18: every getSnapshot() and get() of a query builder compiles the
\* builder's constraints anew (one factory call per constraint, in order, then
\* query()) and issues exactly one getDocs on the compiled query, whatever
\* reads of the same builder came before or are still pending.
C18_EveryReadRecompiles ==
    (event.op \in {"getSnapshot", "builder.get"}) =>
        LET calls == history[event.this]
            n == Len(calls)
            natives == [i \in 1..n |-> NativeOfCall(calls[i])]
        IN /\ ~event.thrown
           /\ event.q = [ref |-> builders[event.this].collectionRef, constraints |-> natives]
           /\ trace = [i \in 1..n |-> ConstraintCall(natives[i])] \o
                      <<QueryCall(builders[event.this].collectionRef, natives),
                        ReadCall("getDocs", event.q)>>

\* a second read of a builder with a constraint while its first read is pending
C18_Witness ==
    /\ event.op = "getSnapshot"
    /\ event.again
    /\ Len(inflight) = 2
    /\ Len(history[event.this]) >= 1

\* C20: delete(id) issues exactly one deleteDoc, on doc(ref, id), and reads
\* nothing first; it resolves whenever the store's delete resolves, also when
\* the same id has just been deleted.
C20_DeleteIsUnconditional ==
    /\ IsResolverCall("delete") =>
          /\ trace = <<DocCall(ThisRef, event.id), ReadCall("deleteDoc", doc(ThisRef, event.id))>>
          /\ CallsOf(trace, "getDoc") = <<>>
    /\ (Settled("delete") /\ event.status = "fulfilled") =>
          /\ event.result = [status |-> "fulfilled", error |-> "", value |-> ResultUndefined]
          /\ trace = <<>>

\* the second delete of an id whose first delete succeeded has succeeded too
C20_Witness ==
    /\ Settled("delete")
    /\ event.call.again
    /\ event.call.id = "id2"
    /\ event.result.status = "fulfilled"

---------------------------------------------------------------------------
(* Sub-collections (SpecSub): a root resolver over a schema that may declare *)
(* sub-collections, the resolvers its subCollection calls create, and the   *)
(* document-level calls on any of them.  The caller makes one call at a     *)
(* time: it waits for a pending call before the next one.                  *)

SubNames == {"posts", "drafts", "comments", "toString"}
CallerSchemas == {NoSchema, PlainSchema}

SubCollection ==
    \E r \in DOMAIN resolvers : \E parentId \in DocIds : \E subCollectionId \in SubNames :
        \E subSchema \in CallerSchemas :
            LET res == subCollection(resolvers[r], resolvers, parentId, subCollectionId, subSchema)
            IN /\ inflight = <<>>
               /\ Len(res.resolvers) <= MaxResolvers
               /\ resolvers' = res.resolvers
               /\ trace' = res.calls
               /\ event' = [op |-> "subCollection", this |-> r, parentId |-> parentId,
                            subCollectionId |-> subCollectionId, subSchema |-> subSchema,
                            thrown |-> res.thrown, message |-> res.message, ret |-> res.ret]
               /\ UNCHANGED <<objs, sentinels, builders, containers, history, inflight>>

\* doc(id) on its own
Doc ==
    \E r \in DOMAIN resolvers : \E id \in DocIds :
        /\ inflight = <<>>
        /\ trace' = <<DocCall(resolvers[r].ref, id)>>
        /\ event' = CallEvent("doc", r, id, 0, EmptyObject, NoOptions, 0, FALSE)
        /\ UNCHANGED <<resolvers, objs, sentinels, builders, containers, history, inflight>>

\* the state after `new ClientBaseCollectionRef(firestore, "users", schema)`
InitSub ==
    /\ \E schema \in SubSchemas :
          resolvers = <<NewCollectionRef(Firestore, "users", schema, NoParent)>>
    /\ objs = <<>>
    /\ sentinels = 0
    /\ builders = <<>>
    /\ containers = <<>>
    /\ history = <<>>
    /\ event = CallEvent("new", 0, "", 0, EmptyObject, NoOptions, 1, FALSE)
    /\ trace = constructorCalls(Firestore, "users", NoParent)
    /\ inflight = <<>>

NextSub ==
    \/ SubCollection \/ Doc
    \/ TerminalAdd \/ TerminalSet \/ Delete \/ Get
    \/ Settle

SpecSub == InitSub /\ [][NextSub]_vars

---------------------------------------------------------------------------
(* Claims about sub-collections and the resolver's handle (SpecSub)        *)

SubCall == event.op = "subCollection"
\* the schema of the receiver declares the name / declares it with its class
Declares(schema, name) ==
    schema.defined /\ schema.subCollections.defined /\ name \in DOMAIN schema.subCollections.defs
DeclaresClass(schema, name) ==
    Declares(schema, name) /\ schema.subCollections.defs[name].collectionClass # "undefined"

\* C13: subCollection throws a configuration error, having constructed no
\* document reference, instantiated no resolver and called nothing of the
\* store, whenever the receiver has no schema, the schema declares no
\* sub-collection of that name, or the entry has no collection class; the
\* error names the sub-collection key and the id of the receiver's collection.
C13_ConfigErrorBeforeWork ==
    (SubCall /\ ~DeclaresClass(ThisSchema, event.subCollectionId)) =>
        /\ event.thrown
        /\ trace = <<>>
        /\ event.ret = 0
        /\ event.message[2] = event.subCollectionId
        /\ event.message[4] = resolvers[event.this].collectionId
        /\ (~Declares(ThisSchema, event.subCollectionId) /\ event.subCollectionId \notin ObjectPrototypeNames) =>
              event.message = <<"Sub-collection '", event.subCollectionId,
                                "' not found in schema for collection '",
                                resolvers[event.this].collectionId, "'">>

\* a name the schema of "users" does not declare
C13_Witness ==
    /\ SubCall
    /\ ThisSchema = UsersSchema
    /\ event.subCollectionId = "comments"
    /\ event.thrown
    /\ event.message = <<"Sub-collection '", "comments", "' not found in schema for collection '", "users", "'">>

\* C14: a successful subCollection(parentId, subName, subSchema) instantiates
\* the class declared for subName with the receiver's firestore, subName, the
\* schema declared in the entry and doc(ref, parentId); the new resolver's
\* handle is collection(doc(ref, parentId), subName); the subSchema argument
\* changes neither the class nor the schema.
C14_SubCollectionUsesDeclaredEntry ==
    (SubCall /\ ~event.thrown) =>
        LET def == ThisSchema.subCollections.defs[event.subCollectionId]
            parentDocRef == doc(ThisRef, event.parentId)
        IN /\ DeclaresClass(ThisSchema, event.subCollectionId)
           /\ trace = <<DocCall(ThisRef, event.parentId),
                        NewCall(def.collectionClass, resolvers[event.this].firestore,
                                event.subCollectionId, def.schema, parentDocRef),
                        CollectionCall(parentDocRef, event.subCollectionId)>>
           /\ resolvers[event.ret] =
                 [firestore |-> resolvers[event.this].firestore,
                  collectionId |-> event.subCollectionId,
                  schema |-> def.schema,
                  ref |-> collection(parentDocRef, event.subCollectionId)]

\* the caller passed a schema of its own, other than the declared one
C14_Witness ==
    /\ SubCall
    /\ ~event.thrown
    /\ event.subSchema.defined
    /\ event.subSchema # resolvers[event.ret].schema
    /\ resolvers[event.ret].ref = <<"users", "id2", "posts">>

\* C15: every successful subCollection call adds a new resolver instance,
\* distinct from all earlier ones and with a collection() call of its own,
\* and leaves every earlier instance, the receiver included, as it was.
C15_SubCollectionNeverCached ==
    [][(event'.op = "subCollection" /\ ~event'.thrown) =>
          /\ Len(resolvers') = Len(resolvers) + 1
          /\ event'.ret = Len(resolvers')
          /\ event'.ret \notin DOMAIN resolvers
          /\ \A r \in DOMAIN resolvers : resolvers'[r] = resolvers[r]
          /\ Len(CallsOf(trace', "collection")) = 1]_vars

\* the same parentId and name twice: two instances on one path
C15_Witness ==
    /\ SubCall
    /\ ~event.thrown
    /\ \E r \in DOMAIN resolvers :
          /\ r < event.ret
          /\ resolvers[r].ref = resolvers[event.ret].ref

\* C19: the constructor calls collection() once, on the parent document when
\* there is one and on the store root otherwise, and the result is the
\* resolver's ref; doc, add, set, delete, get and subCollection address the
\* store through that ref, call collection() no more, and no step changes an
\* existing resolver's ref, firestore, collectionId or schema.
C19_State ==
    /\ IsResolverCall("new") =>
          /\ trace = <<CollectionCall(Firestore, resolvers[event.ret].collectionId)>>
          /\ resolvers[event.ret].ref = trace[1].result
    /\ (SubCall /\ ~event.thrown) =>
          /\ CallsOf(trace, "collection") =
                <<CollectionCall(doc(ThisRef, event.parentId), event.subCollectionId)>>
          /\ resolvers[event.ret].ref = CallsOf(trace, "collection")[1].result
          /\ CallsOf(trace, "doc") = <<DocCall(ThisRef, event.parentId)>>
    /\ event.op \in {"doc", "add", "set", "delete", "get"} =>
          /\ CallsOf(trace, "collection") = <<>>
          /\ \A i \in 1..Len(trace) :
                /\ trace[i].fn \in {"doc", "addDoc"} => trace[i].ref = ThisRef
                /\ trace[i].fn \in {"setDoc", "deleteDoc", "getDoc"} => trace[i].ref = doc(ThisRef, event.id)
          /\ \E i \in 1..Len(trace) : trace[i].fn \in {"doc", "addDoc"}
C19_HandleFixedAtConstruction ==
    /\ []C19_State
    /\ [][\A r \in DOMAIN resolvers : r \in DOMAIN resolvers' /\ resolvers'[r] = resolvers[r]]_vars

\* a resolver made for a parent document deletes a document of its own collection
C19_Witness ==
    /\ IsResolverCall("delete")
    /\ event.this > 1
    /\ trace = <<DocCall(<<"users", "id1", "posts">>, "id2"),
                 ReadCall("deleteDoc", <<"users", "id1", "posts", "id2">>)>>

---------------------------------------------------------------------------
(* Compilation (SpecCompile): the query builder with all its chain methods, *)
(* a subclass that hands addConstraintDefinition a definition of a type    *)
(* buildQuery does not know, and the three methods that compile.  The       *)
(* caller of getSnapshot and get waits for the pending read first.         *)

UnsupportedTypes == {"select"}

Unsupported ==
    \E b \in QueryBuilders : \E type \in UnsupportedTypes :
        Chain(b, addConstraintDefinition(b, BuilderHeap, [type |-> type]),
              [op |-> "addConstraintDefinition", type |-> type], <<>>)

AwaitedGetSnapshot == inflight = <<>> /\ GetSnapshot
AwaitedBuilderGet == inflight = <<>> /\ BuilderGet

NextCompile ==
    \/ Where \/ OrderBy \/ Limit \/ LimitToLast
    \/ StartAt \/ StartAfter \/ EndBefore \/ EndAt
    \/ Unsupported
    \/ BuildQuery \/ AwaitedGetSnapshot \/ AwaitedBuilderGet
    \/ Settle

SpecCompile == InitBuilders /\ [][NextCompile]_vars

---------------------------------------------------------------------------
(* Claims about compilation (SpecCompile)                                  *)

CompileOps == {"buildQuery", "getSnapshot", "builder.get"}
\* the chain calls that made builder b hold a definition of an unsupported type
UnsupportedIn(b) ==
    {i \in 1..Len(history[b]) : history[b][i].op = "addConstraintDefinition"}

\* C21: buildQuery compiles every sequence of definitions of the eight
\* supported types, with one query() call; a definition of any other type
\* makes it throw before query() is called, after the factory calls for the
\* definitions in front of it, and getSnapshot() and get() then issue no getDocs.
C21_UnsupportedTypeFailsFast ==
    event.op \in CompileOps =>
        /\ event.thrown <=> UnsupportedIn(event.this) # {}
        /\ ~event.thrown =>
              /\ Len(CallsOf(trace, "query")) = 1
              /\ Len(trace) = Len(history[event.this]) + (IF event.op = "buildQuery" THEN 1 ELSE 2)
              /\ \A i \in 1..Len(history[event.this]) :
                    trace[i].fn = NativeOfCall(history[event.this][i]).native
        /\ event.thrown =>
              /\ CallsOf(trace, "query") = <<>>
              /\ CallsOf(trace, "getDocs") = <<>>
              /\ \A i \in UnsupportedIn(event.this) : Len(trace) < i

\* getSnapshot() on a builder with a limit in front of the unsupported definition
C21_Witness ==
    /\ event.op = "getSnapshot"
    /\ event.thrown
    /\ history[event.this][1].op = "limit"
    /\ UnsupportedIn(event.this) = {2}
    /\ Len(trace) = 1
    /\ inflight = <<>>

---------------------------------------------------------------------------
(* Further claims about the builders (SpecBuilders)                        *)

\* the constraint definition a chain call of the query builder stands for
DefinitionOfCall(call) ==
    CASE call.op = "_where" ->
            [type |-> "where", fieldPath |-> call.fieldPath, opStr |-> call.opStr, value |-> call.value]
      [] call.op = "orderBy" ->
            [type |-> "orderBy", fieldPath |-> call.fieldPath,
             directionStr |-> IF call.directionStr = "undefined" THEN "asc" ELSE call.directionStr]
      [] call.op \in {"limit", "limitToLast"} ->
            [type |-> call.op, limitCount |-> call.limitCount]
      [] call.op \in {"startAt", "startAfter", "endBefore", "endAt"} ->
            [type |-> call.op, snapshotOrFieldValue |-> call.snapshotOrFieldValue,
             fieldValues |-> call.fieldValues]

\* C22: the constraint sequence of a query builder made by k chain calls has
\* length k and holds, in call order, one definition per call with exactly
\* the caller's arguments (orderBy without a direction stores "asc", a cursor
\* keeps its anchor and its further values); nothing is dropped, merged,
\* replaced or reordered, also when two calls are of the same kind.
C22_ChainAppendsOneConstraint ==
    \A b \in QueryBuilders :
        /\ Len(containers[builders[b].constraintDefinitions]) = Len(history[b])
        /\ \A i \in 1..Len(history[b]) :
              containers[builders[b].constraintDefinitions][i] = DefinitionOfCall(history[b][i])

\* limit(10).limit(10): two limit constraints
C22_Witness ==
    \E b \in QueryBuilders :
        /\ event.op = "limit"
        /\ event.ret = b
        /\ containers[builders[b].constraintDefinitions] =
              <<[type |-> "limit", limitCount |-> 10], [type |-> "limit", limitCount |-> 10]>>

\* the entry for `path` in the mapping of the builder a chain call returned
StoredAt(path) == Lookup(containers[builders[event.ret]._updateData], path)

\* C23: a sugar call calls its sentinel factory exactly once, _increment with
\* the delta, _arrayUnion and _arrayRemove with the values as separate
\* arguments in the given order, _deleteField and _serverTimestamp with no
\* argument, and the new builder holds at the path what the factory returned.
C23_SugarInstallsFactoryResult ==
    /\ event.op \in SentinelOps =>
          /\ Len(trace) = 1
          /\ StoredAt(event.call.fieldPath) = trace[1].result
    /\ event.op = "_increment" =>
          /\ trace[1].fn = "increment"
          /\ trace[1].args = <<event.call.value.n>>
          /\ trace[1].result = JsValue("increment", event.call.value.n, <<>>)
    /\ event.op = "_arrayUnion" =>
          /\ trace[1].fn = "arrayUnion"
          /\ trace[1].args = event.call.values
          /\ trace[1].result = JsValue("arrayUnion", 0, event.call.values)
    /\ event.op = "_arrayRemove" =>
          /\ trace[1].fn = "arrayRemove"
          /\ trace[1].args = event.call.values
          /\ trace[1].result = JsValue("arrayRemove", 0, event.call.values)
    /\ event.op = "_deleteField" =>
          /\ trace[1].fn = "deleteField"
          /\ trace[1].args = <<>>
          /\ trace[1].result = JsValue("deleteField", 0, <<>>)
    /\ event.op = "_serverTimestamp" =>
          /\ trace[1].fn = "serverTimestamp"
          /\ trace[1].args = <<>>
          /\ trace[1].result.tag = "serverTimestamp"

\* _arrayUnion(path, [1, 2]) has stored arrayUnion(1, 2)
C23_Witness ==
    /\ event.op = "_arrayUnion"
    /\ trace[1].args = <<1, 2>>
    /\ StoredAt(event.call.fieldPath) = JsValue("arrayUnion", 0, <<1, 2>>)

\* the accumulated state of builder b is what its own chain calls make of it
OwnState(b) ==
    IF builders[b].kind = "query"
    THEN containers[builders[b].constraintDefinitions] =
            [i \in 1..Len(history[b]) |-> DefinitionOfCall(history[b][i])]
    ELSE IsMappingOf(containers[builders[b]._updateData], history[b])

\* C24: no two builder instances hold the same accumulator container
\* (constraint array or update object), and the state of every builder is
\* exactly what the chain calls on its own path from the root produce:
\* branches of one base differ from it by their own call only, and chaining
\* from one of them shows in neither the base nor the other branch.
C24_NoAliasing ==
    /\ \A b1, b2 \in DOMAIN builders :
          b1 # b2 => Accumulator(builders[b1]) # Accumulator(builders[b2])
    /\ \A b \in DOMAIN builders : OwnState(b)

\* two branches of the root update builder, one path each, the root still empty
C24_Witness ==
    /\ Len(builders) = 4
    /\ builders[3].kind = "update" /\ builders[4].kind = "update"
    /\ Len(history[3]) = 1 /\ Len(history[4]) = 1
    /\ history[3][1].fieldPath # history[4][1].fieldPath
    /\ Len(containers[builders[3]._updateData]) = 1
    /\ Len(containers[builders[4]._updateData]) = 1
    /\ containers[builders[2]._updateData] = <<>>

---------------------------------------------------------------------------
(* Claims about interleaved callers (SpecTerminal)                         *)

\* what a chain call adds to the accumulated state of its receiver
PlusDelta(content, call) ==
    IF call.op \in QueryChainOps
    THEN Append(content, DefinitionOfCall(call))
    ELSE SpreadWith(content, call.fieldPath, InstalledBy(call))

C25_State ==
    /\ (event.op = "commit" /\ event.result = "pending") =>
          /\ trace[1].payload = containers[builders[event.this]._updateData]
          /\ IsMappingOf(trace[1].payload, history[event.this])
    /\ event.op \in {"getSnapshot", "builder.get"} =>
          event.q.constraints = [i \in 1..Len(history[event.this]) |-> NativeOfCall(history[event.this][i])]
    /\ event.op \in ChainOps =>
          containers[Accumulator(builders[event.ret])] =
              PlusDelta(containers[Accumulator(builders[event.this])], event.call)
    /\ \A b \in DOMAIN builders : OwnState(b)

\* C25: whatever chain calls and terminal calls are interleaved on the same
\* builders, also while store calls are pending, a terminal call sends the
\* state its builder was created with, a chain call returns the receiver's
\* state plus its own delta, and no step changes an existing builder or the
\* content of an existing container (so nothing already sent changes later).
C25_SafeToShare ==
    /\ []C25_State
    /\ [][/\ \A b \in DOMAIN builders : b \in DOMAIN builders' /\ builders'[b] = builders[b]
          /\ \A c \in DOMAIN containers : c \in DOMAIN containers' /\ containers'[c] = containers[c]]_vars

\* a chain call on builder 3 while the commit of builder 3 awaits the store
C25_Witness ==
    /\ event.op = "_increment"
    /\ event.this = 3
    /\ event.ret = 4
    /\ \E i \in 1..Len(inflight) : inflight[i].handler = "commit"
    /\ Len(containers[builders[3]._updateData]) = 1

---------------------------------------------------------------------------
(* Further claims about the collection resolver (SpecResolver)             *)

\* C26: after add, set or applyDefaults the caller's payload object holds
\* exactly what it held before the call; what applyDefaults returns, and what
\* add and a non-merge set write, is another object; a merge set hands the
\* store the caller's object itself.
C26_PayloadNotMutated ==
    /\ event.op \in {"add", "set", "applyDefaults"} => objs[event.data] = event.arg
    /\ IsResolverCall("applyDefaults") => event.ret # event.data
    /\ (IsResolverCall("add") \/ (IsResolverCall("set") /\ ~RequestsMerge(event.options))) =>
          WriteCall.data # event.data
    /\ (IsResolverCall("set") /\ RequestsMerge(event.options)) =>
          /\ WriteCall.data = event.data
          /\ WriteCall.payload = event.arg

\* add wrote a payload with a default the caller's object still lacks
C26_Witness ==
    /\ IsResolverCall("add")
    /\ \E f \in FieldNames :
          /\ Omits(event.arg, f)
          /\ WriteCall.payload[f] = Lit(9)
          /\ objs[event.data][f] = event.arg[f]
          /\ Omits(objs[event.data], f)

---------------------------------------------------------------------------
(* Repeated commits: a caller that commits the same update builder again   *)
(* and again, after the store answered or while it has not, and chains     *)
(* from a builder it has committed.  The record of a pending updateDoc     *)
(* says which commit of its builder it is and what the first one sent.     *)

MaxCommits == 3

NoCommit == [n |-> 0, first |-> <<>>, status |-> "none"]

\* the commit of builder b that the last event was about: the call of
\* commit() itself or the end of its updateDoc
LastCommit(b) ==
    IF event.op = "settle" /\ event.call.this = b
    THEN [n |-> event.call.n, first |-> event.call.first, status |-> event.status]
    ELSE IF event.op = "commit" /\ event.this = b /\ event.result = "pending"
    THEN [n |-> inflight[Len(inflight)].n, first |-> inflight[Len(inflight)].first, status |-> "pending"]
    ELSE NoCommit

CommitPromise(b, last) ==
    [handler |-> "commit", fn |-> "updateDoc", this |-> b, n |-> last.n + 1,
     first |-> IF last.n = 0 THEN containers[builders[b]._updateData] ELSE last.first,
     after |-> last.status]

CommitAgain ==
    \E b \in UpdateBuilders :
        /\ LastCommit(b).n < MaxCommits
        /\ CommitOf(b, CommitPromise(b, LastCommit(b)))

\* a chain call; the event says which commit of the receiver came just before
IncrementAfter ==
    \E b \in UpdateBuilders : \E fieldPath \in FieldPaths : \E value \in IncrementValues :
        LET res == _increment(b, BuilderHeap, fieldPath, value)
            call == [op |-> "_increment", fieldPath |-> fieldPath, value |-> value]
        IN ChainOf(b, res, call, res.calls,
                   [op |-> call.op, this |-> b, ret |-> res.ret, call |-> call, after |-> LastCommit(b)])

NextCommit == IncrementAfter \/ CommitAgain \/ Settle

SpecCommit == InitBuilders /\ [][NextCommit]_vars

C27_State ==
    /\ event.op = "commit" =>
          IF containers[builders[event.this]._updateData] = <<>>
          THEN trace = <<WarnCall>> /\ event.result = "fulfilled"
          ELSE /\ trace = <<UpdateCall(builders[event.this]._docRef, builders[event.this]._updateData,
                                       containers[builders[event.this]._updateData])>>
               /\ IsMappingOf(trace[1].payload, history[event.this])
               /\ event.result = "pending"
               /\ trace[1].payload = inflight[Len(inflight)].first
    /\ (event.op = "_increment" /\ event.after.n > 0) =>
          containers[builders[event.ret]._updateData] =
              SpreadWith(event.after.first, event.call.fieldPath, InstalledBy(event.call))
    /\ \A b \in DOMAIN builders : OwnState(b)

\* C27: a call of commit() and the end of its updateDoc, fulfilled or
\* rejected, leave every builder and every accumulated mapping as they were;
\* an empty builder's commit only warns; every commit of a non-empty builder,
\* the n-th like the first, makes one updateDoc call with the builder's full
\* mapping, the same as the first commit sent; and a builder chained from a
\* committed one holds that mapping plus its own operation.
C27_CommitKeepsMapping ==
    /\ []C27_State
    /\ [][(event'.op \in {"commit", "settle"}) =>
              /\ builders' = builders
              /\ containers' = containers
              /\ (event'.op = "commit" /\ LastCommit(event'.this).n > 0) =>
                    /\ event'.result = "pending"
                    /\ Len(trace') = 1
                    /\ trace'[1].payload = LastCommit(event'.this).first]_vars

\* the third commit of a non-empty builder, after the store rejected the second
C27_Witness ==
    /\ event.op = "commit"
    /\ event.result = "pending"
    /\ inflight[Len(inflight)].n = 3
    /\ inflight[Len(inflight)].after = "rejected"
    /\ Len(trace[1].payload) >= 1
    /\ trace[1].payload = inflight[Len(inflight)].first

---------------------------------------------------------------------------
(* What counts as an omitted field (SpecResolver)                          *)

\* the handler of the last event applied the defaults to the caller's payload
AppliesDefaults ==
    \/ IsResolverCall("applyDefaults") /\ ~event.again
    \/ IsResolverCall("add")
    \/ IsResolverCall("set") /\ ~RequestsMerge(event.options)

\* the object the defaults were applied to, as it came out
Defaulted == IF IsResolverCall("applyDefaults") THEN objs[event.ret] ELSE WriteCall.payload

\* the value the directive of field f stands for is at f in out
HoldsDefault(schema, f, out) ==
    IF HasTimestampDefault(schema, f)
    THEN IsTimestampSentinel(out[f])
    ELSE out[f] = schema.fields[f].defaultValue

====
